---- MODULE Spec2Model ----
(***************************************************************************)
(* Network Time Clock (network-time-clock.ino): sync scheduling in        *)
(* setup()/loop(), NZ DST conversion through the Timezone library, and    *)
(* the fixed-width LCD layout of displayDateTime().                       *)
(***************************************************************************)
EXTENDS Integers, Naturals, Sequences, FiniteSets, TLC

(* ---------------- unsigned long (32-bit) arithmetic -------------------- *)
(* millis() and lastSync are 32-bit unsigned; TLC integers are 32-bit      *)
(* signed, so an unsigned long is kept as two 16-bit halves.              *)
Half == 2^16

U32(h, l) == [hi |-> h, lo |-> l]

ZeroU == U32(0, 0)

(* a + k (mod 2^32) for a small non-negative k *)
AddMs(a, k) ==
  LET s == a.lo + k
  IN  U32((a.hi + s \div Half) % Half, s % Half)

(* a - b (mod 2^32): unsigned subtraction *)
SubU(a, b) ==
  LET l == a.lo - b.lo
      borrow == IF l < 0 THEN 1 ELSE 0
  IN  U32((a.hi - b.hi - borrow) % Half, l + borrow * Half)

(* a > k for a small non-negative integer k *)
GtU(a, k) == a.hi > k \div Half \/ (a.hi = k \div Half /\ a.lo > k % Half)

(* a >= k *)
GeU(a, k) == a.hi > k \div Half \/ (a.hi = k \div Half /\ a.lo >= k % Half)

(* a < b as unsigned values *)
LtU(a, b) == a.hi < b.hi \/ (a.hi = b.hi /\ a.lo < b.lo)

(* a \div 1000 (value < 2^32, result fits a TLC integer) *)
DivU1000(a) == a.hi * 65 + (a.hi * 536 + a.lo) \div 1000

(* ------------------------- program constants --------------------------- *)
ntpUpdateInterval == 600000

displayDelay == 1000

(* NTPClient::forceUpdate: polls every 10 ms, gives up after 102 polls *)
NtpPollMs == 10

(* poll on which the NTP reply arrives (the code accepts polls 1..101) *)
ReplyPolls == {1, 3, 101}

NtpTimeoutMs == 102 * NtpPollMs

(* NTPClient default _updateInterval used by update() *)
NtpLibUpdateInterval == 60000

(* NTP server replies (epoch seconds) *)
ServerEpochs == {1758981600, 1767225600}

(* Duration of the bring-up part of setup() before the NTP sync (ms) *)
SetupDurations == {1500, 45000}

(* ----------------------------- bounds ---------------------------------- *)
MaxIters == 6

(* ------------------------------ state ---------------------------------- *)
VARIABLES
  pc,           \* "setup", "loop" or "halted"
  millis,       \* millis() (unsigned long)
  lastSync,     \* global lastSync (unsigned long)
  currentEpoc,  \* NTPClient::_currentEpoc
  lastUpdate,   \* NTPClient::_lastUpdate (unsigned long)
  iter,         \* loop() iterations executed
  rt,           \* true elapsed ms (not wrapped)
  attemptedAt,  \* true time of the first forceUpdate call, -1 if none
  sinceSync,    \* true ms elapsed since the tick held in lastSync
  setupRes,     \* outcome of the sync in setup(): "ok", "fail", "none"
  updRes,       \* outcome of the sync inside timeClient.update() this iteration
  chkRes,       \* outcome of the forced sync of this iteration
  chkDue,       \* whether the lastSync check of this iteration was due
  chkElapsed,   \* true ms since the tick in lastSync at that check
  chkNow,       \* millis() read at the check
  chkLs,        \* lastSync read at the check
  dispUtc,      \* UTC value displayDateTime() rendered last
  renderAt,     \* millis() at that render
  tzUtc,        \* UTC instant handed to the Timezone conversion
  tzDone,       \* conversion performed
  tzLocal,      \* nzTime.toLocal(tzUtc)
  tzLocDst,     \* nzTime.locIsDST(tzUtc), the flag printSyncInfo() logs
  tzCache,      \* year of nzTime's cached change points, 0 while fresh
  fW, fM, fD,   \* displayDateTime(): w = weekday-1, m = month-1, d = day
  fH, fMin, fS, \* h, min, s
  fDone,        \* displayDateTime() has run
  sfx,          \* getDaySuffix(d)
  dateLine,     \* the 16-cell date line (dateLine[0..15])
  dateOk,       \* every write into dateLine stayed in its 16 cells
  timeLine,     \* the 16-cell time line
  timeOk        \* every write into timeLine stayed in its 16 cells

clockVars == <<pc, millis, lastSync, currentEpoc, lastUpdate, iter, rt,
               attemptedAt, sinceSync, setupRes, updRes, chkRes, chkDue,
               chkElapsed, chkNow, chkLs, dispUtc, renderAt>>

tzVars == <<tzUtc, tzDone, tzLocal, tzLocDst, tzCache>>

fmtVars == <<fW, fM, fD, fH, fMin, fS, fDone, sfx, dateLine, dateOk, timeLine, timeOk>>

vars == <<clockVars, tzVars, fmtVars>>

FmtIdle ==
  /\ fW = 0 /\ fM = 0 /\ fD = 1 /\ fH = 0 /\ fMin = 0 /\ fS = 0
  /\ fDone = FALSE
  /\ sfx = <<>>
  /\ dateLine = <<>>
  /\ dateOk = TRUE
  /\ timeLine = <<>>
  /\ timeOk = TRUE

(* Timezone nzTime(nzDST, nzSTD): initTimeChanges() zeroes the change points *)
FreshTz == [dstLoc |-> 0, stdLoc |-> 0, dstUTC |-> 0, stdUTC |-> 0]

TzIdle ==
  /\ tzCache = 0
  /\ tzUtc = 0
  /\ tzDone = FALSE
  /\ tzLocal = 0
  /\ tzLocDst = FALSE

(* ======================= TimeLib / Timezone library ====================== *)
SECS_PER_DAY == 24 * 3600

(* TimeLib LEAP_YEAR(Y), Y = years since 1970 *)
LEAP_YEAR(Y) ==
  LET y == 1970 + Y
  IN  y > 0 /\ y % 4 = 0 /\ (y % 100 /= 0 \/ y % 400 = 0)

(* number of leap years among 1970 .. 1970 + Y - 1 (the loop of makeTime) *)
LeapsBelow(y) == (y - 1) \div 4 - (y - 1) \div 100 + (y - 1) \div 400

LeapDaysBefore(Y) == LeapsBelow(1970 + Y) - LeapsBelow(1970)

(* days of months 1 .. m - 1 of year Y (the month loop of makeTime) *)
DaysBeforeMonth(Y, m) ==
  <<0, 31, 59, 90, 120, 151, 181, 212, 243, 273, 304, 334, 365>>[m]
  + (IF m > 2 /\ LEAP_YEAR(Y) THEN 1 ELSE 0)

(* TimeLib makeTime: Y years since 1970, month 1..12, day 1..31 *)
makeTime(Y, mo, d, h, mi, sec) ==
  (Y * 365 + LeapDaysBefore(Y) + DaysBeforeMonth(Y, mo) + d - 1) * SECS_PER_DAY
  + h * 3600 + mi * 60 + sec

DaysBeforeYear(Y) == Y * 365 + LeapDaysBefore(Y)

(* TimeLib's year loop runs over the years since 1970; YearSpan bounds it *)
YearSpan == 70

(* days from 1970-01-01 to the start of each year the loop visits *)
YearStart == [Y \in 0..YearSpan |-> DaysBeforeYear(Y)]

BreakFields(t, days, Y, rem, M) ==
  [Second |-> t % 60, Minute |-> (t \div 60) % 60,
   Hour |-> (t \div 3600) % 24, Wday |-> ((days + 4) % 7) + 1,
   Year |-> Y, Month |-> M, Day |-> rem - DaysBeforeMonth(Y, M) + 1]

BreakMonth(t, days, Y, rem) ==
  BreakFields(t, days, Y, rem, 1 + Cardinality({k \in 2..12 : DaysBeforeMonth(Y, k) <= rem}))

BreakYear(t, days, Y) == BreakMonth(t, days, Y, days - YearStart[Y])

BreakDays(t, days) ==
  BreakYear(t, days, Cardinality({k \in 1..YearSpan : YearStart[k] <= days}))

(* TimeLib breakTime. Its year loop counts the years whose start is at or *)
(* before the day; its month loop the months that start at or before the  *)
(* day of the year.                                                        *)
breakTime(t) == BreakDays(t, t \div SECS_PER_DAY)

year(t) == breakTime(t).Year + 1970

weekday(t) == ((t \div SECS_PER_DAY + 4) % 7) + 1

(* TimeChangeRule {abbrev, week, dow, month, hour, offset}; Last = 0, *)
(* First = 1, Sun = 1, Jan = 1                                          *)
Last == 0
First == 1
Sun == 1
Apr == 4
Sep == 9

nzDST == [abbrev |-> "NZDT", week |-> Last, dow |-> Sun, month |-> Sep, hour |-> 2, offset |-> 780]

nzSTD == [abbrev |-> "NZST", week |-> First, dow |-> Sun, month |-> Apr, hour |-> 3, offset |-> 720]

(* Timezone::toTime_t: local time of a rule's transition in year yr *)
toTime_t(r, yr) ==
  LET isLast == r.week = 0
      m  == IF isLast THEN (IF r.month + 1 > 12 THEN 1 ELSE r.month + 1) ELSE r.month
      y  == IF isLast /\ r.month + 1 > 12 THEN yr + 1 ELSE yr
      w  == IF isLast THEN 1 ELSE r.week
      t0 == makeTime(y - 1970, m, 1, r.hour, 0, 0)
      t1 == t0 + (((r.dow - weekday(t0) + 7) % 7) + (w - 1) * 7) * SECS_PER_DAY
  IN  IF isLast THEN t1 - 7 * SECS_PER_DAY ELSE t1

(* Timezone::calcTimeChanges *)
calcTimeChanges(yr) ==
  LET dstLoc == toTime_t(nzDST, yr)
      stdLoc == toTime_t(nzSTD, yr)
  IN  [dstLoc |-> dstLoc, stdLoc |-> stdLoc,
       dstUTC |-> dstLoc - nzSTD.offset * 60,
       stdUTC |-> stdLoc - nzDST.offset * 60]

(* nzTime's cached change points are either the zeroes of the constructor *)
(* (cy = 0) or calcTimeChanges(cy) for the year cy it last computed; both  *)
(* m_dstUTC and m_dstLoc fall in year cy, and year(0) = 1970.              *)
ChangeTable == [y \in 1970..1970 + YearSpan |-> calcTimeChanges(y)]

ChangePoints(cy) == IF cy = 0 THEN FreshTz ELSE ChangeTable[cy]

CachedYear(cy) == IF cy = 0 THEN 1970 ELSE cy

RefreshYear(cy, y) == IF y /= CachedYear(cy) THEN y ELSE cy

(* the recalculation check: year(t) != year(m_dstUTC) (or m_dstLoc) *)
Refresh(cy, t) == RefreshYear(cy, year(t))

(* utcIsDST's comparison with > in place of >= at the transitions *)
UtcDstTestStrict(c, utc) ==
  IF nzDST.offset = nzSTD.offset THEN FALSE
  ELSE IF c.stdUTC = c.dstUTC THEN FALSE
  ELSE IF c.stdUTC > c.dstUTC THEN utc > c.dstUTC /\ utc <= c.stdUTC
  ELSE ~(utc > c.stdUTC /\ utc <= c.dstUTC)

(* utcIsDST's comparison on change points c *)
UtcDstTest(c, utc) ==
  IF nzDST.offset = nzSTD.offset THEN FALSE
  ELSE IF c.stdUTC = c.dstUTC THEN FALSE
  ELSE IF c.stdUTC > c.dstUTC THEN utc >= c.dstUTC /\ utc < c.stdUTC
  ELSE ~(utc >= c.stdUTC /\ utc < c.dstUTC)

UtcDstAt(cy, utc) == [c |-> cy, res |-> UtcDstTest(ChangePoints(cy), utc)]

(* Timezone::utcIsDST on an object whose cache is cy0 *)
utcIsDST(cy0, utc) == UtcDstAt(Refresh(cy0, utc), utc)

LocalOf(u, utc) ==
  [c |-> u.c, res |-> IF u.res THEN utc + nzDST.offset * 60 ELSE utc + nzSTD.offset * 60]

(* Timezone::toLocal: recalculation check, then utcIsDST *)
toLocal(cy0, utc) == LocalOf(utcIsDST(Refresh(cy0, utc), utc), utc)

(* locIsDST's comparison on change points c *)
LocDstTest(c, local) ==
  IF c.stdUTC = c.dstUTC THEN FALSE
  ELSE IF c.stdLoc > c.dstLoc THEN local >= c.dstLoc /\ local < c.stdLoc
  ELSE ~(local >= c.stdLoc /\ local < c.dstLoc)

LocDstAt(cy, local) == [c |-> cy, res |-> LocDstTest(ChangePoints(cy), local)]

(* Timezone::locIsDST (expects a local time) *)
locIsDST(cy0, local) == LocDstAt(Refresh(cy0, local), local)

SyncRec(a, b) == [c |-> b.c, local |-> a.res, isDST |-> b.res]

SyncOf(a, utc) == SyncRec(a, locIsDST(a.c, utc))

(* printSyncInfo(): local = nzTime.toLocal(utc); isDST = nzTime.locIsDST(utc) *)
SyncInfo(c0, utc) == SyncOf(toLocal(c0, utc), utc)

(* ============================ displayDateTime ============================ *)
(* C strings are sequences of one-character strings.                        *)
monthShortNames ==
  << <<"J","a","n">>, <<"F","e","b">>, <<"M","a","r">>, <<"A","p","r">>,
     <<"M","a","y">>, <<"J","u","n">>, <<"J","u","l">>, <<"A","u","g">>,
     <<"S","e","p">>, <<"O","c","t">>, <<"N","o","v">>, <<"D","e","c">> >>

weekdayShortNames ==
  << <<"S","u","n">>, <<"M","o","n">>, <<"T","u","e">>, <<"W","e","d">>,
     <<"T","h","u">>, <<"F","r","i">>, <<"S","a","t">> >>

Digit(n) == <<"0","1","2","3","4","5","6","7","8","9">>[n + 1]

(* printf "%d" for 0 <= n < 100 (days, hours) *)
FmtD(n) == IF n < 10 THEN <<Digit(n)>> ELSE <<Digit(n \div 10), Digit(n % 10)>>

(* printf "%02d" for n >= 0 *)
Fmt02D(n) == IF n < 10 THEN <<"0", Digit(n)>> ELSE FmtD(n)

(* snprintf(buf, size, ...): at most size - 1 characters are kept *)
snprintf(size, str) == IF Len(str) <= size - 1 THEN str ELSE SubSeq(str, 1, size - 1)

(* memcpy(line + pos, src, Len(src)) on a char[] line (cells 0..Len-1) *)
memcpy(line, pos, src) ==
  [i \in 1..Len(line) |->
     IF i - 1 >= pos /\ i - 1 < pos + Len(src) THEN src[i - pos] ELSE line[i]]

InBounds(line, pos, src) == pos >= 0 /\ pos + Len(src) <= Len(line)

(* char xLine[17] = "                "  (16 blanks) *)
BlankLine == [i \in 1..16 |-> " "]

getDaySuffixNoTeens(d) ==
  CASE d % 10 = 1 -> <<"s","t">>
    [] d % 10 = 2 -> <<"n","d">>
    [] d % 10 = 3 -> <<"r","d">>
    [] OTHER      -> <<"t","h">>

(* getDaySuffix *)
getDaySuffix(d) ==
  IF d >= 11 /\ d <= 13 THEN <<"t","h">>
  ELSE CASE d % 10 = 1 -> <<"s","t">>
         [] d % 10 = 2 -> <<"n","d">>
         [] d % 10 = 3 -> <<"r","d">>
         [] OTHER      -> <<"t","h">>

(* "%s %d%s %s" into dateStr[17] *)
DateStr(w, d, m) ==
  snprintf(17, weekdayShortNames[w + 1] \o <<" ">> \o FmtD(d) \o getDaySuffix(d)
               \o <<" ">> \o monthShortNames[m + 1])

datePadRoundUp(len) == (17 - len) \div 2

(* (16 - strlen(dateStr)) / 2 *)
datePad(len) == (16 - len) \div 2

(* "%d:%02d:%02d" into timeNumStr[12] *)
TimeNumStr(h, mi, sec) ==
  LET h12 == IF h % 12 = 0 THEN 12 ELSE h % 12
  IN  snprintf(12, FmtD(h12) \o <<":">> \o Fmt02D(mi) \o <<":">> \o Fmt02D(sec))

timeStartNoReserve(timeLen) == (16 - timeLen) \div 2

(* (16 - timeLen - 3) / 2 *)
timeStart(timeLen) == (16 - timeLen - 3) \div 2

(* displayDateTime() from its w, m, d, h, min, s: both LCD lines *)
RenderLines(w, m, d, h, mi, sec) ==
  LET ds == DateStr(w, d, m)
      pad == datePad(Len(ds))
      tn == TimeNumStr(h, mi, sec)
      st == IF h >= 12 THEN <<"P","M">> ELSE <<"A","M">>
      ts == timeStart(Len(tn))
      sp == ts + Len(tn) + 1
      tl1 == memcpy(BlankLine, ts, tn)
  IN  /\ fW' = w /\ fM' = m /\ fD' = d /\ fH' = h /\ fMin' = mi /\ fS' = sec
      /\ sfx' = getDaySuffix(d)
      /\ dateLine' = memcpy(BlankLine, pad, ds)
      /\ dateOk' = InBounds(BlankLine, pad, ds)
      /\ timeLine' = memcpy(tl1, sp, st)
      /\ timeOk' = (InBounds(BlankLine, ts, tn) /\ InBounds(tl1, sp, st))
      /\ fDone' = TRUE

DisplayFields(c, t) ==
  [c |-> c, w |-> t.Wday - 1, m |-> t.Month - 1, d |-> t.Day,
   h |-> t.Hour, mi |-> t.Minute, s |-> t.Second]

DisplayOf(a) == DisplayFields(a.c, breakTime(a.res))

(* displayDateTime(): utc -> nzTime.toLocal -> TimeLib fields -> lines; *)
(* yields the Timezone change points after the call                    *)
DisplayAt(c0, utc) == DisplayOf(toLocal(c0, utc))

(* NTPClient::getEpochTime: _currentEpoc + (millis() - _lastUpdate) / 1000 *)
getEpochTime(ep, lu, now) == ep + DivU1000(SubU(now, lu))

(* NTPClient::forceUpdate started at millis() = ms: a reply on poll p     *)
(* returns at ms + 10p with timeout = p, so _lastUpdate = millis() -      *)
(* 10 * (timeout + 1) = ms - 10, and _currentEpoc is the server time; on  *)
(* timeout (102 polls) nothing changes.                                   *)
forceUpdate(ms, ep, lu) ==
  {[ok |-> "ok", ep |-> e, lu |-> SubU(ms, U32(0, NtpPollMs)), dur |-> p * NtpPollMs,
    end |-> AddMs(ms, p * NtpPollMs)] : e \in ServerEpochs, p \in ReplyPolls}
  \cup
  {[ok |-> "fail", ep |-> ep, lu |-> lu, dur |-> NtpTimeoutMs,
    end |-> AddMs(ms, NtpTimeoutMs)]}

(* no sync performed: nothing changes *)
NoSync(ms, ep, lu) == {[ok |-> "none", ep |-> ep, lu |-> lu, dur |-> 0, end |-> ms]}

(* NTPClient::update *)
update(ms, ep, lu) ==
  IF GeU(SubU(ms, lu), NtpLibUpdateInterval) \/ lu = ZeroU
  THEN forceUpdate(ms, ep, lu)
  ELSE NoSync(ms, ep, lu)

(* a check written as millis() > lastSync + interval, which breaks at the wrap *)
SyncDueNoWrap(now, ls) == LtU(AddMs(ls, ntpUpdateInterval), now)

(* loop(): millis() - lastSync > ntpUpdateInterval *)
SyncDue(now, ls) == GtU(SubU(now, ls), ntpUpdateInterval)

(* a setup() that leaves the first sync to loop() *)
SetupSyncSkipped(ms, ep, lu) == NoSync(ms, ep, lu)

(* the initial sync of setup() *)
SetupSync(ms, ep, lu) == forceUpdate(ms, ep, lu)

(* --------------------------- construction ------------------------------ *)
Init ==
  /\ pc = "setup"
  /\ millis = ZeroU
  /\ lastSync = ZeroU
  /\ currentEpoc = 0
  /\ lastUpdate = ZeroU
  /\ iter = 0
  /\ rt = 0
  /\ attemptedAt = -1
  /\ sinceSync = 0
  /\ setupRes = "none"
  /\ updRes = "none"
  /\ chkRes = "none"
  /\ chkDue = FALSE
  /\ chkElapsed = 0
  /\ chkNow = ZeroU
  /\ chkLs = ZeroU
  /\ dispUtc = 0
  /\ renderAt = ZeroU
  /\ TzIdle
  /\ FmtIdle

(* setup(): bring-up, Wi-Fi connect (halt on failure), initial forceUpdate *)
setup ==
  /\ pc = "setup"
  /\ \E wifiOk \in BOOLEAN, sd \in SetupDurations :
       IF ~wifiOk
       THEN /\ pc' = "halted"
            /\ millis' = AddMs(millis, sd)
            /\ rt' = rt + sd
            /\ sinceSync' = sinceSync + sd
            /\ UNCHANGED <<lastSync, currentEpoc, lastUpdate, iter, attemptedAt,
                           setupRes, updRes, chkRes, chkDue, chkElapsed,
                           chkNow, chkLs, dispUtc, renderAt, tzVars, fmtVars>>
       ELSE \E r \in SetupSync(AddMs(millis, sd), currentEpoc, lastUpdate) :
            /\ pc' = "loop"
            /\ millis' = r.end
            /\ rt' = rt + sd + r.dur
            /\ sinceSync' = sinceSync + sd + r.dur
            /\ attemptedAt' = IF r.ok /= "none" /\ attemptedAt = -1
                              THEN rt + sd ELSE attemptedAt
            /\ currentEpoc' = r.ep
            /\ lastUpdate' = r.lu
            /\ setupRes' = r.ok
            /\ IF r.ok = "ok"
               THEN \E utc \in {getEpochTime(r.ep, r.lu, r.end)} :
                    \E si \in {SyncInfo(tzCache, utc)} :
                        /\ tzUtc' = utc /\ tzDone' = TRUE
                        /\ tzLocal' = si.local /\ tzLocDst' = si.isDST
                        /\ tzCache' = si.c
               ELSE UNCHANGED tzVars
            /\ UNCHANGED <<lastSync, iter, updRes, chkRes, chkDue, chkElapsed,
                           chkNow, chkLs, dispUtc, renderAt, fmtVars>>

(* loop(): timeClient.update(); forced sync when due; displayDateTime();  *)
(* delay(displayDelay)                                                     *)
loop ==
  /\ pc = "loop"
  /\ iter < MaxIters
  /\ \E u \in update(millis, currentEpoc, lastUpdate) :
     LET t1 == u.end
         due == SyncDue(t1, lastSync)
     IN
     \E c \in IF due THEN forceUpdate(t1, u.ep, u.lu) ELSE NoSync(t1, u.ep, u.lu) :
       LET t2 == c.end
           syncUtc == getEpochTime(c.ep, c.lu, t2)
       IN
       \E si \in {SyncInfo(tzCache, syncUtc)} :
       \E dsp \in {DisplayAt(IF c.ok = "ok" THEN si.c ELSE tzCache, syncUtc)} :
       /\ lastSync' = IF c.ok = "ok" THEN t2 ELSE lastSync
       /\ currentEpoc' = c.ep
       /\ lastUpdate' = c.lu
       /\ dispUtc' = getEpochTime(c.ep, c.lu, t2)
       /\ renderAt' = t2
       /\ millis' = AddMs(t2, displayDelay)
       /\ rt' = rt + u.dur + c.dur + displayDelay
       /\ attemptedAt' = IF attemptedAt = -1 /\ u.ok /= "none" THEN rt
                         ELSE IF attemptedAt = -1 /\ c.ok /= "none" THEN rt + u.dur
                         ELSE attemptedAt
       /\ sinceSync' = IF c.ok = "ok" THEN displayDelay
                       ELSE sinceSync + u.dur + c.dur + displayDelay
       /\ updRes' = u.ok
       /\ chkRes' = c.ok
       /\ chkDue' = due
       /\ chkElapsed' = sinceSync + u.dur
       /\ chkNow' = t1
       /\ chkLs' = lastSync
       /\ iter' = iter + 1
       /\ IF c.ok = "ok"
          THEN /\ tzUtc' = syncUtc /\ tzDone' = TRUE
               /\ tzLocal' = si.local /\ tzLocDst' = si.isDST
          ELSE UNCHANGED <<tzUtc, tzDone, tzLocal, tzLocDst>>
       /\ tzCache' = dsp.c
       /\ RenderLines(dsp.w, dsp.m, dsp.d, dsp.h, dsp.mi, dsp.s)
       /\ UNCHANGED <<pc, setupRes>>

Next == setup \/ loop

Spec == Init /\ [][Next]_vars

(* ---------------- a running device: loop() after a success ------------- *)
(* lastSync = T from an earlier successful forced sync, now = T + elapsed; *)
(* the device may have run for weeks, so T can be close to the 2^32 wrap. *)
(* The previous loop() rendered at now - displayDelay, then delay()ed.    *)
RunLastSync == {U32(Half - 10, 56360), U32(0, 30000)}

RunElapsed == {ntpUpdateInterval - 2500, ntpUpdateInterval - 1000, 20000}

(* 2^30 ms: elapsed time standing for "more than a millis() period" *)
SinceCap == 1073741824

(* a forced success that ended at T (poll p) left _lastUpdate = T - 10(p+1); *)
(* update()'s own success can only come 60 s after it                     *)
RunLastUpdate(ls, since, now) ==
  {SubU(ls, U32(0, (p + 1) * NtpPollMs)) : p \in ReplyPolls}
  \cup (IF since >= NtpLibUpdateInterval + 30000 THEN {SubU(now, U32(0, 30000))} ELSE {})

(* the last success was 2^32 - 1500 ms ago: every sync since has failed *)
OutageLeft == 1500

InitRun ==
  /\ pc = "loop"
  /\ lastSync \in RunLastSync
  /\ \/ /\ sinceSync \in RunElapsed
        /\ millis = AddMs(lastSync, sinceSync)
        /\ lastUpdate \in RunLastUpdate(lastSync, sinceSync, millis)
     \/ /\ sinceSync = SinceCap
        /\ lastUpdate = SubU(lastSync, U32(0, 2 * NtpPollMs))
        /\ millis = SubU(lastUpdate, U32(0, OutageLeft))
  /\ currentEpoc \in ServerEpochs
  /\ iter = 0
  /\ rt = 0
  /\ attemptedAt = 0
  /\ setupRes = "ok"
  /\ updRes = "none"
  /\ chkRes = "none"
  /\ chkDue = FALSE
  /\ chkElapsed = 0
  /\ chkNow = ZeroU
  /\ chkLs = ZeroU
  /\ renderAt = SubU(millis, U32(0, displayDelay))
  /\ dispUtc = getEpochTime(currentEpoc, lastUpdate, renderAt)
  /\ tzUtc = 0 /\ tzDone = FALSE /\ tzLocal = 0 /\ tzLocDst = FALSE
  /\ tzCache = toLocal(0, dispUtc).c
  /\ FmtIdle

NextRun == loop

SpecRun == InitRun /\ [][NextRun]_vars

(* ----------- the conversion printSyncInfo()/displayDateTime() do -------- *)
(* Reference calendar (proleptic Gregorian, days since 1970-01-01) used to *)
(* state the NZ rules independently of the library.                       *)
DaysFromCivil(y, m, d) ==
  LET y2  == IF m <= 2 THEN y - 1 ELSE y
      era == y2 \div 400
      yoe == y2 - era * 400
      doy == (153 * (IF m > 2 THEN m - 3 ELSE m + 9) + 2) \div 5 + d - 1
      doe == yoe * 365 + yoe \div 4 - yoe \div 100 + doy
  IN  era * 146097 + doe - 719468

UtcYear(u) ==
  CHOOSE y \in 1970..2037 :
    /\ DaysFromCivil(y, 1, 1) <= u \div 86400
    /\ u \div 86400 < DaysFromCivil(y + 1, 1, 1)

(* DST starts 02:00 NZST on the last Sunday of September *)
DstStartUtc(y) ==
  LET d30 == DaysFromCivil(y, 9, 30)
  IN  (d30 - ((d30 + 4) % 7)) * 86400 + 2 * 3600 - 720 * 60

(* DST ends 03:00 NZDT on the first Sunday of April *)
DstEndUtc(y) ==
  LET d1 == DaysFromCivil(y, 4, 1)
  IN  (d1 + ((7 - ((d1 + 4) % 7)) % 7)) * 86400 + 3 * 3600 - 780 * 60

TzFirstYear == 2025

TzLastYear == 2026

NearOffsets == {-46801, -43201, -3601, -1, 0, 1, 3600, 43199, 43200, 46799, 46800}

UtcSamples ==
  { t \in UNION {
      {DstStartUtc(y) + k : k \in NearOffsets}
      \cup {DstEndUtc(y) + k : k \in NearOffsets}
      \cup {DaysFromCivil(y, 1, 1) * 86400 + k : k \in NearOffsets}
      \cup {(DaysFromCivil(y, 1, 1) + i) * 86400 + 43200 : i \in 0..364}
      : y \in {1970} \cup (TzFirstYear..TzLastYear) } : t >= 0 }

(* change points nzTime can hold: fresh, or computed for a sampled year *)
TzCaches == {0} \cup (TzFirstYear..TzLastYear)

(* before any sync getEpochTime() is millis() / 1000 <= (2^32 - 1) / 1000 *)
MaxMillisSecs == 4294967

(* a 1970 instant only arises before any sync, on a never-recalculated   *)
(* nzTime (displayDateTime()'s toLocal); a server epoch is 2025 or later *)
TzReachable(utc, cy) ==
  UtcYear(utc) = 1970 => (cy = 0 /\ utc <= MaxMillisSecs)

ClockIdle ==
  /\ pc = "halted"
  /\ millis = ZeroU
  /\ lastSync = ZeroU
  /\ currentEpoc = 0
  /\ lastUpdate = ZeroU
  /\ iter = 0
  /\ rt = 0
  /\ attemptedAt = -1
  /\ sinceSync = 0
  /\ setupRes = "none"
  /\ updRes = "none"
  /\ chkRes = "none"
  /\ chkDue = FALSE
  /\ chkElapsed = 0
  /\ chkNow = ZeroU
  /\ chkLs = ZeroU
  /\ dispUtc = 0
  /\ renderAt = ZeroU

InitTz ==
  /\ ClockIdle
  /\ tzUtc \in UtcSamples
  /\ tzDone = FALSE
  /\ tzLocal = 0
  /\ tzLocDst = FALSE
  /\ tzCache \in TzCaches
  /\ TzReachable(tzUtc, tzCache)
  /\ FmtIdle

(* printSyncInfo() on the UTC instant tzUtc *)
printSyncInfo ==
  /\ ~tzDone
  /\ \E si \in {SyncInfo(tzCache, tzUtc)} :
         /\ tzDone' = TRUE
         /\ tzLocal' = si.local
         /\ tzLocDst' = si.isDST
         /\ tzCache' = si.c
  /\ UNCHANGED <<clockVars, tzUtc, fmtVars>>

NextTz == printSyncInfo

SpecTz == InitTz /\ [][NextTz]_vars

displayDateTime ==
  /\ ~fDone
  /\ RenderLines(fW, fM, fD, fH, fMin, fS)
  /\ UNCHANGED <<clockVars, tzVars>>

FmtInitCommon ==
  /\ ClockIdle
  /\ TzIdle
  /\ fDone = FALSE
  /\ sfx = <<>>
  /\ dateLine = <<>>
  /\ dateOk = TRUE
  /\ timeLine = <<>>
  /\ timeOk = TRUE

(* every weekday, day and month; a fixed time *)
InitDate ==
  /\ FmtInitCommon
  /\ fW \in 0..6 /\ fD \in 1..31 /\ fM \in 0..11
  /\ fH = 13 /\ fMin = 0 /\ fS = 0

(* every hour, minute and second; a fixed date *)
InitTime ==
  /\ FmtInitCommon
  /\ fW = 1 /\ fD = 15 /\ fM = 6
  /\ fH \in 0..23 /\ fMin \in 0..59 /\ fS \in 0..59

NextFmt == displayDateTime

SpecDate == InitDate /\ [][NextFmt]_vars

SpecTime == InitTime /\ [][NextFmt]_vars

(* ============================ properties ================================ *)

(* C1: the first sync attempt is immediate: by the time loop() starts, a   *)
(* forceUpdate has already been made (in setup()), before one sync interval *)
(* has elapsed since power-on, whether it succeeded or failed.             *)
C1_FirstSyncImmediate ==
  pc = "loop" => (attemptedAt >= 0 /\ attemptedAt < ntpUpdateInterval)

C1_Witness == pc = "loop" /\ iter = 0 /\ setupRes = "fail" /\ attemptedAt >= 0

(* C2: after a successful sync recorded in lastSync = T, a loop() check    *)
(* forces a sync exactly when the true elapsed time now - T exceeds        *)
(* ntpUpdateInterval, also when millis() wrapped between T and now (for    *)
(* checks within one millis() period of T).                                *)
C2_DueExactlyAfterInterval ==
  (iter > 0 /\ chkElapsed < SinceCap) => (chkDue <=> chkElapsed > ntpUpdateInterval)

(* the check at now - T = ntpUpdateInterval exactly, after the wrap *)
C2_Witness ==
  iter > 0 /\ ~chkDue /\ chkElapsed = ntpUpdateInterval /\ LtU(chkNow, chkLs)

(* C3: no backoff: after a failed sync (also the failed one of setup())    *)
(* the very next loop() check is due, and a failure never changes lastSync.*)
C3_NoBackoff ==
  [][(pc = "loop" /\ iter' = iter + 1
      /\ ((iter = 0 /\ setupRes = "fail") \/ (iter > 0 /\ chkRes = "fail")))
     => chkDue']_vars
  /\ [][chkRes' = "fail" => lastSync' = lastSync]_vars

(* C4: an iteration without a successful sync leaves the UTC estimate      *)
(* (_currentEpoc, _lastUpdate) unchanged and renders it at the current     *)
(* millis(), so the displayed time only advances; only a successful sync   *)
(* may step it.                                                            *)
C4_DisplayContinuity ==
  [][(iter' = iter + 1 /\ updRes' /= "ok" /\ chkRes' /= "ok")
     => /\ currentEpoc' = currentEpoc
        /\ lastUpdate' = lastUpdate
        /\ dispUtc' = getEpochTime(currentEpoc, lastUpdate, renderAt')
        /\ dispUtc' >= dispUtc]_vars

(* C5: toLocal(utc) - utc is 780*60 or 720*60, and it is 780*60 exactly   *)
(* when locIsDST(utc) (the DST flag printSyncInfo() logs) holds.          *)
C5_OffsetMatchesDstFlag ==
  tzDone => /\ tzLocal - tzUtc \in {780 * 60, 720 * 60}
            /\ (tzLocal - tzUtc = 780 * 60 <=> tzLocDst)

(* C6: each transition instant belongs to the new rule: one second before *)
(* the September start the offset is NZST and at it NZDT; one second      *)
(* before the April end NZDT and at it NZST.                              *)
C6_BoundaryExact ==
  tzDone =>
    LET y == UtcYear(tzUtc)
        dst == tzLocal - tzUtc = 780 * 60
    IN  /\ tzUtc = DstStartUtc(y) - 1 => ~dst
        /\ tzUtc = DstStartUtc(y) => dst
        /\ tzUtc = DstEndUtc(y) - 1 => dst
        /\ tzUtc = DstEndUtc(y) => ~dst

C6_Witness == tzDone /\ tzUtc = DstStartUtc(UtcYear(tzUtc))

(* C7: the conversion applies NZDT from the September transition through  *)
(* the end of the year and from January 1 until the April transition, and *)
(* NZST between the April and the September transitions.                  *)
C7_YearWrap ==
  tzDone =>
    LET y == UtcYear(tzUtc)
    IN  (tzLocal - tzUtc = 780 * 60) <=> (tzUtc >= DstStartUtc(y) \/ tzUtc < DstEndUtc(y))

C7_Witness ==
  tzDone /\ tzUtc \div 86400 = DaysFromCivil(UtcYear(tzUtc), 1, 1)
         /\ tzLocal - tzUtc = 780 * 60

Spaces(n) == [i \in 1..n |-> " "]

(* C8: getDaySuffix(d) is "th" for 11..13 and otherwise "st", "nd", "rd"  *)
(* for d mod 10 = 1, 2, 3 and "th" else.                                  *)
C8_DaySuffix ==
  fDone =>
    sfx = IF fD \in 11..13 THEN <<"t","h">>
          ELSE IF fD % 10 = 1 THEN <<"s","t">>
          ELSE IF fD % 10 = 2 THEN <<"n","d">>
          ELSE IF fD % 10 = 3 THEN <<"r","d">>
          ELSE <<"t","h">>

C8_Witness == fDone /\ fD = 11

(* C9: the date line is "<Weekday> <Day><Suffix> <Month>" untruncated at  *)
(* left offset floor((16 - len)/2), blanks elsewhere, 16 cells, all writes *)
(* in bounds; (Mon, 15, Jul) gives "  Mon 15th Jul  ".                     *)
C9_DateLine ==
  fDone =>
    LET tok == weekdayShortNames[fW + 1] \o <<" ">> \o FmtD(fD) \o sfx
               \o <<" ">> \o monthShortNames[fM + 1]
        pad == (16 - Len(tok)) \div 2
    IN  /\ Len(tok) <= 16
        /\ dateLine = Spaces(pad) \o tok \o Spaces(16 - pad - Len(tok))
        /\ Len(dateLine) = 16
        /\ dateOk
        /\ (fW = 1 /\ fD = 15 /\ fM = 6) =>
             dateLine = <<" "," ","M","o","n"," ","1","5","t","h"," ","J","u","l"," "," ">>

(* an odd number of spare cells: single-digit day, 11-cell token *)
C9_Witness == fDone /\ fD < 10 /\ dateLine[3] /= " " /\ dateLine[16] = " " /\ dateLine[15] = " "

(* C10: the time line is "H:MM:SS" with the 12-hour hour at left offset   *)
(* floor((16 - len - 3)/2), then a blank and AM (h < 12) or PM; 16 cells, *)
(* all writes in bounds; 00:05:09 gives "12:05:09" AM, 13:00:00 gives     *)
(* "1:00:00" PM.                                                           *)
C10_TimeLine ==
  fDone =>
    LET h12 == IF fH % 12 = 0 THEN 12 ELSE fH % 12
        tok == FmtD(h12) \o <<":">> \o Fmt02D(fMin) \o <<":">> \o Fmt02D(fS)
        mer == IF fH < 12 THEN <<"A","M">> ELSE <<"P","M">>
        st  == (16 - Len(tok) - 3) \div 2
    IN  /\ timeLine = Spaces(st) \o tok \o <<" ">> \o mer \o Spaces(16 - st - Len(tok) - 3)
        /\ Len(timeLine) = 16
        /\ timeOk
        /\ (fH = 0 /\ fMin = 5 /\ fS = 9) =>
             timeLine = <<" "," ","1","2",":","0","5",":","0","9"," ","A","M"," "," "," ">>
        /\ (fH = 13 /\ fMin = 0 /\ fS = 0) =>
             timeLine = <<" "," "," ","1",":","0","0",":","0","0"," ","P","M"," "," "," ">>

C10_Witness == fDone /\ fH = 0 /\ fMin = 5 /\ fS = 9

====
